---- MODULE Spec2Model ----
(***************************************************************************)
(* Model of the size-bot Dangerfile (src/unnamed/part_001): one comparison *)
(* run over a base and a head build tree.  Artifacts are enumerated,       *)
(* measured and reconciled into resultsMap, sorted and classified into     *)
(* the critical and significant row lists, rendered into the message and   *)
(* emitted, with the oversized-message fallback.                           *)
(*                                                                         *)
(* Numbers.  Sizes are integers.  A change ratio is a value of the JS      *)
(* number line restricted to what a division of two integers can give:    *)
(* a rational in lowest terms, +Infinity, -Infinity or NaN.  For the sizes *)
(* used here the IEEE double of a quotient compares with the thresholds    *)
(* exactly as the rational does.                                           *)
(***************************************************************************)
EXTENDS Integers, Sequences, FiniteSets, TLC

(***************************************************************************)
(* Bounds of the model.                                                    *)
(***************************************************************************)
\* how many entries of the declared always-critical list the model keeps
NumCritical == 2
\* how many artifacts outside the always-critical list the trees may hold
NumOther == 2
\* length, in characters, of the path of an artifact outside the list
OtherPathLen == 16000

(***************************************************************************)
(* Program constants.                                                      *)
(***************************************************************************)
Rat(n, d) == [kind |-> "num", n |-> n, d |-> d]

CRITICAL_THRESHOLD == Rat(1, 50)
SIGNIFICANCE_THRESHOLD == Rat(1, 500)
\* the display epsilon of change()
EQUALITY_EPSILON == Rat(1, 10000)
\* GitHub comments are limited to 65536 characters
COMMENT_LIMIT == 65536

DeclaredCriticalPaths ==
    << "oss-stable/react-dom/cjs/react-dom.production.js",
       "oss-stable/react-dom/cjs/react-dom-client.production.js",
       "oss-experimental/react-dom/cjs/react-dom.production.js",
       "oss-experimental/react-dom/cjs/react-dom-client.production.js",
       "facebook-www/ReactDOM-prod.classic.js",
       "facebook-www/ReactDOM-prod.modern.js" >>

\* the Set of always-critical paths, in its insertion (= iteration) order
CRITICAL_ARTIFACT_PATHS == SubSeq(DeclaredCriticalPaths, 1, NumCritical)

Range(s) == {s[i] : i \in 1..Len(s)}

CriticalSet == Range(CRITICAL_ARTIFACT_PATHS)

\* artifacts that glob("**/*.js") can find besides the always-critical ones
OtherPathNames == << "a.js", "b.js", "c.js", "d.js" >>

OtherPaths == Range(SubSeq(OtherPathNames, 1, NumOther))

Paths == CriticalSet \cup OtherPaths

PathLen(p) == IF p \in CriticalSet THEN Len(p) ELSE OtherPathLen

(***************************************************************************)
(* JS number arithmetic on ratios.                                         *)
(***************************************************************************)
Abs(x) == IF x < 0 THEN -x ELSE x

RECURSIVE GCD(_, _)
GCD(a, b) == IF b = 0 THEN a ELSE GCD(b, a % b)

Infinity == [kind |-> "inf", n |-> 1, d |-> 0]
NegInfinity == [kind |-> "ninf", n |-> -1, d |-> 0]
NaN == [kind |-> "nan", n |-> 0, d |-> 0]
MinusOne == Rat(-1, 1)

\* n / d for integers n and d, d >= 0, as JS evaluates it
Divide(n, d) ==
    IF d = 0
    THEN IF n > 0 THEN Infinity ELSE IF n < 0 THEN NegInfinity ELSE NaN
    ELSE LET g == GCD(Abs(n), d) IN Rat(n \div g, d \div g)

\* 0 - x
Negate(x) ==
    CASE x.kind = "num" -> Rat(-x.n, x.d)
      [] x.kind = "inf" -> NegInfinity
      [] x.kind = "ninf" -> Infinity
      [] OTHER -> NaN

\* x > y; every comparison with NaN is false
GreaterThan(x, y) ==
    CASE x.kind = "nan" \/ y.kind = "nan" -> FALSE
      [] x.kind = "inf" -> y.kind # "inf"
      [] x.kind = "ninf" -> FALSE
      [] y.kind = "inf" -> FALSE
      [] y.kind = "ninf" -> TRUE
      [] OTHER -> x.n * y.d > y.n * x.d

LessThan(x, y) == GreaterThan(y, x)

\* the sign of x - y, with 2 standing for a NaN difference
\* (Infinity - Infinity and anything involving NaN)
SubtractSign(x, y) ==
    CASE x.kind = "nan" \/ y.kind = "nan" -> 2
      [] x.kind = y.kind /\ x.kind # "num" -> 2
      [] GreaterThan(x, y) -> 1
      [] LessThan(x, y) -> -1
      [] OTHER -> 0

(***************************************************************************)
(* The file system: what each tree holds at a path.                        *)
(***************************************************************************)
Absent == [kind |-> "absent", size |-> 0, gzip |-> 0]
File(s, g) == [kind |-> "file", size |-> s, gzip |-> g]
\* a file that exists (glob lists it, stat succeeds) but cannot be read
Unreadable(s) == [kind |-> "unreadable", size |-> s, gzip |-> 0]

Empty == File(0, 20)
Plain == File(1000, 300)

\* what a path outside the always-critical list holds on the two sides:
\* <<base, head>>
Scenarios ==
    { <<Absent, Absent>>,
      <<Absent, Plain>>,
      <<Plain, Absent>>,
      <<Unreadable(1000), Plain>>,
      <<Unreadable(1000), Absent>>,
      <<Empty, Empty>>,
      <<Empty, Plain>>,
      <<Plain, Empty>>,
      <<Plain, Plain>>,
      <<Plain, File(1004, 301)>>,
      <<Plain, File(1050, 320)>>,
      <<Plain, File(950, 290)>> }

\* what an always-critical path holds on the two sides
CriticalScenarios ==
    { <<Absent, Absent>>,
      <<Absent, Plain>>,
      <<Empty, Empty>>,
      <<Plain, Plain>>,
      <<Plain, File(1050, 320)>> }

\* statSync(dir + "/" + path).size : <<threw, size>>
StatSync(f) ==
    IF f.kind = "absent" THEN [threw |-> "ENOENT", value |-> 0]
    ELSE [threw |-> "", value |-> f.size]

\* gzipSize.fileSync(dir + "/" + path), which reads the file
GzipFileSync(f) ==
    CASE f.kind = "absent" -> [threw |-> "ENOENT", value |-> 0]
      [] f.kind = "unreadable" -> [threw |-> "EACCES", value |-> 0]
      [] OTHER -> [threw |-> "", value |-> f.gzip]

\* glob("**/*.js", {cwd}) : the paths present in a tree
Glob(tree) == {p \in DOMAIN tree : tree[p].kind # "absent"}

(***************************************************************************)
(* resultsMap: a Map keeps its entries in insertion order, so it is a      *)
(* sequence of Result records with distinct paths.                         *)
(***************************************************************************)
Result(p, hs, hg, bs, bg, c, cg) ==
    [path |-> p, headSize |-> hs, headSizeGzip |-> hg, baseSize |-> bs,
     baseSizeGzip |-> bg, change |-> c, changeGzip |-> cg]

MapHas(m, p) == \E i \in 1..Len(m) : m[i].path = p

MapGet(m, p) == m[CHOOSE i \in 1..Len(m) : m[i].path = p]

\* Map.prototype.set: replace in place when the key exists, else append
MapSet(m, r) ==
    IF MapHas(m, r.path)
    THEN [i \in 1..Len(m) |-> IF m[i].path = r.path THEN r ELSE m[i]]
    ELSE Append(m, r)

\* the record the try block of the head loop builds
BothPresentResult(p, b, h) ==
    Result(p, h.size, h.gzip, b.size, b.gzip,
           Divide(h.size - b.size, b.size), Divide(h.gzip - b.gzip, b.gzip))

\* the record the catch block of the head loop builds
NewFileResult(p, h) ==
    Result(p, h.size, h.gzip, 0, 0, Infinity, Infinity)

\* the record the base loop builds
DeletedResult(p, b) ==
    Result(p, 0, 0, b.size, b.gzip, MinusOne, MinusOne)

\* does the try block of the head loop run to its end
TryBlockCompletes(b, h) ==
    /\ StatSync(b).threw = ""
    /\ GzipFileSync(b).threw = ""
    /\ StatSync(h).threw = ""
    /\ GzipFileSync(h).threw = ""

\* one iteration of the head loop
HeadIteration(m, p, b, h) ==
    IF TryBlockCompletes(b, h)
    THEN MapSet(m, BothPresentResult(p, b, h))
    ELSE MapSet(m, NewFileResult(p, h))

\* the head loop over the listed paths
RECURSIVE HeadLoop(_, _, _, _)
HeadLoop(m, order, bTree, hTree) ==
    IF order = <<>> THEN m
    ELSE HeadLoop(HeadIteration(m, Head(order), bTree[Head(order)], hTree[Head(order)]),
                  Tail(order), bTree, hTree)

NoError == [name |-> "", path |-> ""]

\* does measuring a base file for the deleted-file record throw, and what
MeasureThrows(b) ==
    IF StatSync(b).threw # "" THEN StatSync(b).threw ELSE GzipFileSync(b).threw

\* the base loop over the listed paths: the map it leaves and the error
\* that ended it, if one did
RECURSIVE BaseLoop(_, _, _)
BaseLoop(m, order, bTree) ==
    IF order = <<>> THEN [map |-> m, thrown |-> NoError]
    ELSE IF MapHas(m, Head(order)) THEN BaseLoop(m, Tail(order), bTree)
    ELSE IF MeasureThrows(bTree[Head(order)]) # ""
    THEN [map |-> m,
          thrown |-> [name |-> MeasureThrows(bTree[Head(order)]), path |-> Head(order)]]
    ELSE BaseLoop(MapSet(m, DeletedResult(Head(order), bTree[Head(order)])),
                  Tail(order), bTree)

\* the orders in which a set of paths can be listed
Orderings(S) ==
    {f \in [1..Cardinality(S) -> S] : \A i, j \in 1..Cardinality(S) : f[i] = f[j] => i = j}

(***************************************************************************)
(* results.sort((a, b) => b.change - a.change)                             *)
(***************************************************************************)
\* the comparator as the sort sees it: a NaN result counts as +0
CompareFn(a, b) ==
    LET s == SubtractSign(b.change, a.change) IN IF s = 2 THEN 0 ELSE s

\* is CompareFn a consistent comparator (ECMA-262, Array.prototype.sort)
\* for the elements of seq
ConsistentComparator(seq) ==
    \A i, j, k \in 1..Len(seq) :
        /\ (CompareFn(seq[i], seq[j]) = 0 /\ CompareFn(seq[j], seq[k]) = 0)
               => CompareFn(seq[i], seq[k]) = 0
        /\ (CompareFn(seq[i], seq[j]) < 0 /\ CompareFn(seq[j], seq[k]) < 0)
               => CompareFn(seq[i], seq[k]) < 0

\* x goes after every element that does not sort after it
InsertSorted(s, x) ==
    LET k == Cardinality({i \in 1..Len(s) : CompareFn(s[i], x) <= 0})
    IN SubSeq(s, 1, k) \o <<x>> \o SubSeq(s, k + 1, Len(s))

RECURSIVE StableSort(_)
StableSort(seq) ==
    IF seq = <<>> THEN <<>>
    ELSE InsertSorted(StableSort(SubSeq(seq, 1, Len(seq) - 1)), seq[Len(seq)])

Rearrangements(seq) ==
    {[i \in 1..Len(seq) |-> seq[f[i]]] : f \in Permutations(1..Len(seq))}

\* the arrays the sort may leave: the stable sorted order under a consistent
\* comparator, an implementation-defined order otherwise
SortOutcomes(seq) ==
    IF ConsistentComparator(seq) THEN {StableSort(seq)} ELSE Rearrangements(seq)

(***************************************************************************)
(* Rendering: change(), kbs(), row().  A rendered string is kept as the    *)
(* structure that determines its characters.                               *)
(***************************************************************************)
Label(t, h) == [text |-> t, hundredths |-> h]

\* percentFormatter.format(decimal): the percentage in hundredths of a
\* percent, rounded half away from zero; the sign is that of the number.
\* NaN takes the place of the digits; an infinite number is a sign, the
\* infinity symbol and the percent sign
PercentFormat(decimal) ==
    CASE decimal.kind = "nan" -> Label("NaN%", 0)
      [] decimal.kind = "inf" -> Label("infinite percent", 1)
      [] decimal.kind = "ninf" -> Label("infinite percent", -1)
      [] OTHER ->
           LET a == (2 * Abs(decimal.n) * 10000 + decimal.d) \div (2 * decimal.d)
           IN Label("percent", IF decimal.n < 0 THEN -a ELSE a)

Change(decimal) ==
    IF decimal = Infinity THEN Label("New file", 0)
    ELSE IF decimal = MinusOne THEN Label("Deleted", 0)
    ELSE IF LessThan(decimal, EQUALITY_EPSILON) THEN Label("=", 0)
    ELSE PercentFormat(decimal)

\* kbs(bytes): bytes / 1000 with two fraction digits, in hundredths of a kB
Kbs(bytes) == (bytes + 5) \div 10

baseShaValue == "0f3c62b466df0d6ed2e9d5f5e2e3a8f1b2c4d6e8"
headShaValue == "9a1b7c5d3e2f4a6b8c0d1e3f5a7b9c2d4e6f8a0b"

Row(result, bSha, hSha) ==
    [path |-> result.path,
     diffViewUrl |-> <<hSha, result.path, bSha>>,
     change |-> Change(result.change),
     baseSize |-> Kbs(result.baseSize),
     headSize |-> Kbs(result.headSize),
     changeGzip |-> Change(result.changeGzip),
     baseSizeGzip |-> Kbs(result.baseSizeGzip),
     headSizeGzip |-> Kbs(result.headSizeGzip)]

(***************************************************************************)
(* message.length                                                          *)
(***************************************************************************)
RECURSIVE NumDigits(_)
NumDigits(k) == IF k < 10 THEN 1 ELSE 1 + NumDigits(k \div 10)

\* digits of k with the grouping separators of the "en" locale
GroupedLen(k) == NumDigits(k) + ((NumDigits(k) - 1) \div 3)

LabelLen(l) ==
    IF l.text = "percent"
    THEN (IF l.hundredths = 0 THEN 0 ELSE 1)
         + GroupedLen(Abs(l.hundredths) \div 100) + Len(".00%")
    ELSE IF l.text = "infinite percent" THEN 3
    ELSE Len(l.text)

KbsLen(h) == GroupedLen(h \div 100) + Len(".00 kB")

\* the characters of a row that do not depend on the result
rowFixedLen ==
    Len("| [") + Len("](")
    + Len("https://react-builds.vercel.app/commits/") + Len("/files/")
    + Len("?compare=") + Len(")")
    + 6 * Len(" | ")
    + Len("**") + Len("**")

RowLen(r) ==
    rowFixedLen
    + PathLen(r.path)
    + Len(r.diffViewUrl[1]) + PathLen(r.diffViewUrl[2]) + Len(r.diffViewUrl[3])
    + LabelLen(r.change) + KbsLen(r.baseSize) + KbsLen(r.headSize)
    + LabelLen(r.changeGzip) + KbsLen(r.baseSizeGzip) + KbsLen(r.headSizeGzip)

RECURSIVE SumRowLen(_)
SumRowLen(rows) ==
    IF rows = <<>> THEN 0 ELSE RowLen(Head(rows)) + SumRowLen(Tail(rows))

\* rows.join("\n").length
JoinLen(rows) ==
    IF rows = <<>> THEN 0 ELSE SumRowLen(rows) + (Len(rows) - 1) * Len("\n")

headerLen ==
    Len("\n  | Name | +/- | Base | Current | +/- gzip | Base gzip | Current gzip |")
    + Len("\n  | ---- | --- | ---- | ------- | -------- | --------- | ------------ |")

Message(bSha, hSha, critical, significant) ==
    [baseSha |-> bSha, headSha |-> hSha,
     criticalResults |-> critical, significantResults |-> significant]

NoMessage == Message("", "", <<>>, <<>>)

\* the characters of the message around the shas and the two row lists
messageFixedLen ==
    Len("\nComparing: ") + Len("...")
    + Len("\n\n## Critical size changes\n\n")
    + Len("Includes critical production bundles, as well as any change greater than ")
    + Len("2") + Len("%:\n\n")
    + headerLen + Len("\n")
    + Len("\n\n## Significant size changes\n\n")
    + Len("Includes any change greater than ") + Len("0.2") + Len("%:\n\n")
    + Len("\n")

\* the collapsible block around the significant rows
detailsFixedLen ==
    Len("\n<details>\n<summary>Expand to show</summary>\n")
    + headerLen + Len("\n") + Len("\n</details>\n")

MessageLength(m) ==
    messageFixedLen + Len(m.baseSha) + Len(m.headSha)
    + JoinLen(m.criticalResults)
    + (IF Len(m.significantResults) > 0
       THEN detailsFixedLen + JoinLen(m.significantResults)
       ELSE Len("(No significant changes)"))

(***************************************************************************)
(* Classification.                                                         *)
(***************************************************************************)
\* the test that puts a result in the top section
ExceedsCritical(result) ==
    /\ \/ GreaterThan(result.change, CRITICAL_THRESHOLD)
       \/ GreaterThan(Negate(result.change), CRITICAL_THRESHOLD)
       \/ result.change = Infinity
       \/ result.change = MinusOne
    /\ result.path \notin CriticalSet

\* the test that puts a result in the bottom, collapsed section
ExceedsSignificance(result) ==
    \/ GreaterThan(result.change, SIGNIFICANCE_THRESHOLD)
    \/ GreaterThan(Negate(result.change), SIGNIFICANCE_THRESHOLD)
    \/ result.change = Infinity
    \/ result.change = MinusOne

Rows(seq, bSha, hSha) == [i \in 1..Len(seq) |-> Row(seq[i], bSha, hSha)]

\* positions of the always-critical paths that resultsMap has no entry for
MissingBundles(m) ==
    {i \in 1..Len(CRITICAL_ARTIFACT_PATHS) : ~MapHas(m, CRITICAL_ARTIFACT_PATHS[i])}

\* a loop that went on past the first missing bundle and named the last
LastMissingBundle(m) ==
    CRITICAL_ARTIFACT_PATHS[CHOOSE i \in MissingBundles(m) :
                                \A j \in MissingBundles(m) : j <= i]

\* the path the "Missing expected bundle" error names
FirstMissingBundle(m) ==
    CRITICAL_ARTIFACT_PATHS[CHOOSE i \in MissingBundles(m) :
                                \A j \in MissingBundles(m) : i <= j]

\* criticalResults once both loops have run
CriticalResults(m, sorted, bSha, hSha) ==
    Rows([i \in 1..Len(CRITICAL_ARTIFACT_PATHS) |->
              MapGet(m, CRITICAL_ARTIFACT_PATHS[i])], bSha, hSha)
    \o Rows(SelectSeq(sorted, ExceedsCritical), bSha, hSha)

SignificantResults(sorted, bSha, hSha) ==
    Rows(SelectSeq(sorted, ExceedsSignificance), bSha, hSha)

(***************************************************************************)
(* Emission.                                                               *)
(***************************************************************************)
\* an overflow test with the comparison the wrong way round
TooLargeReversed(m) == MessageLength(m) < COMMENT_LIMIT

\* message.length > 65536
TooLarge(m) == MessageLength(m) > COMMENT_LIMIT

Report(m) == [kind |-> "report", body |-> m]
\* "The size diff is too large to display in a single comment. ..."
Pointer == [kind |-> "pointer", body |-> NoMessage]

(***************************************************************************)
(* The run.                                                                *)
(***************************************************************************)
VARIABLES
    baseTree,           \* base-build: path -> what is there
    headTree,           \* build: path -> what is there
    pc,                 \* where the run is
    baseSha, headSha,   \* the trimmed COMMIT_SHA files
    resultsMap,
    message,
    markdown,           \* danger.markdown calls, in order
    fallbackFile,       \* writeFileSync("sizebot-message.md", ...) calls
    warnings,           \* number of danger.warn calls
    thrown              \* the error the run died of

vars == <<baseTree, headTree, pc, baseSha, headSha, resultsMap, message, markdown, fallbackFile, warnings, thrown>>

trees == <<baseTree, headTree>>
outputs == <<markdown, fallbackFile, warnings>>

Init ==
    /\ \E c \in [CriticalSet -> CriticalScenarios], o \in [OtherPaths -> Scenarios] :
          /\ baseTree = [p \in Paths |-> IF p \in CriticalSet THEN c[p][1] ELSE o[p][1]]
          /\ headTree = [p \in Paths |-> IF p \in CriticalSet THEN c[p][2] ELSE o[p][2]]
    /\ pc = "prelude"
    /\ baseSha = ""
    /\ headSha = ""
    /\ resultsMap = <<>>
    /\ message = NoMessage
    /\ markdown = <<>>
    /\ fallbackFile = <<>>
    /\ warnings = 0
    /\ thrown = NoError

\* the upstream repository is not facebook/react
NotMainRepo ==
    /\ pc = "prelude"
    /\ pc' = "returned"
    /\ UNCHANGED <<trees, baseSha, headSha,
                   resultsMap, message, outputs, thrown>>

\* a COMMIT_SHA file cannot be read
MissingCommitSha ==
    /\ pc = "prelude"
    /\ warnings' = warnings + 1
    /\ pc' = "returned"
    /\ UNCHANGED <<trees, baseSha, headSha,
                   resultsMap, message, markdown, fallbackFile, thrown>>

\* every file of the commit is under packages/react-devtools
DevtoolsOnly ==
    /\ pc = "prelude"
    /\ baseSha' = baseShaValue
    /\ headSha' = headShaValue
    /\ pc' = "returned"
    /\ UNCHANGED <<trees,
                   resultsMap, message, outputs, thrown>>

\* the prelude passes; glob lists the head artifacts in some order and the
\* head loop visits them in that order
HeadPass ==
    /\ pc = "prelude"
    /\ baseSha' = baseShaValue
    /\ headSha' = headShaValue
    /\ \E order \in Orderings(Glob(headTree)) :
          resultsMap' = HeadLoop(resultsMap, order, baseTree, headTree)
    /\ pc' = "baseLoop"
    /\ UNCHANGED <<trees, message, outputs, thrown>>

\* glob lists the base artifacts in some order and the base loop visits
\* them all
BasePass ==
    /\ pc = "baseLoop"
    /\ \E order \in Orderings(Glob(baseTree)) :
          LET ended == BaseLoop(resultsMap, order, baseTree)
          IN /\ ended.thrown = NoError
             /\ resultsMap' = ended.map
    /\ pc' = "classify"
    /\ UNCHANGED <<trees, baseSha, headSha, message, outputs, thrown>>

\* the base loop meets a path without a result whose measurement throws:
\* nothing catches it
BasePassThrows ==
    /\ pc = "baseLoop"
    /\ \E order \in Orderings(Glob(baseTree)) :
          LET ended == BaseLoop(resultsMap, order, baseTree)
          IN /\ ended.thrown # NoError
             /\ resultsMap' = ended.map
             /\ thrown' = ended.thrown
    /\ pc' = "fatal"
    /\ UNCHANGED <<trees, baseSha, headSha, message, outputs>>

\* the always-critical loop throws on the first missing bundle
ClassifyThrows ==
    /\ pc = "classify"
    /\ MissingBundles(resultsMap) # {}
    /\ thrown' = [name |-> "Missing expected bundle",
                  path |-> FirstMissingBundle(resultsMap)]
    /\ pc' = "fatal"
    /\ UNCHANGED <<trees, baseSha, headSha,
                   resultsMap, message, outputs>>

\* the message the run renders when the sort leaves the array sorted
RenderedMessage(m, sorted, bSha, hSha) ==
    Message(bSha, hSha, CriticalResults(m, sorted, bSha, hSha),
            SignificantResults(sorted, bSha, hSha))

\* sort, classify, render and emit: a message over the comment limit goes
\* to the file and the comment is the pointer, any other is the comment
Emit ==
    /\ pc = "classify"
    /\ MissingBundles(resultsMap) = {}
    /\ \E sorted \in SortOutcomes(resultsMap) :
          message' = RenderedMessage(resultsMap, sorted, baseSha, headSha)
    /\ IF TooLarge(message')
       THEN /\ fallbackFile' = Append(fallbackFile, message')
            /\ markdown' = Append(markdown, Pointer)
       ELSE /\ markdown' = Append(markdown, Report(message'))
            /\ UNCHANGED fallbackFile
    /\ pc' = "emitted"
    /\ UNCHANGED <<trees, baseSha, headSha, resultsMap, warnings, thrown>>

Next ==
    \/ NotMainRepo
    \/ MissingCommitSha
    \/ DevtoolsOnly
    \/ HeadPass
    \/ BasePass
    \/ BasePassThrows
    \/ ClassifyThrows
    \/ Emit

Spec == Init /\ [][Next]_vars

(***************************************************************************)
(* Vocabulary of the properties.                                           *)
(***************************************************************************)
InHead(p) == headTree[p].kind # "absent"
InBase(p) == baseTree[p].kind # "absent"

Records == Range(resultsMap)
RecordOf(p) == MapGet(resultsMap, p)
IndexOf(p) == CHOOSE i \in 1..Len(resultsMap) : resultsMap[i].path = p

\* both loops have run to their end
Reconciled ==
    \/ pc \in {"classify", "emitted"}
    \/ pc = "fatal" /\ thrown.name = "Missing expected bundle"

IsSentinel(x) == x = Infinity \/ x = MinusOne

\* |x| > t for a threshold t
MagnitudeAbove(x, t) ==
    \/ x.kind \in {"inf", "ninf"}
    \/ x.kind = "num" /\ Abs(x.n) * t.d > t.n * x.d

\* |x| < t for a threshold t
MagnitudeBelow(x, t) == x.kind = "num" /\ Abs(x.n) * t.d < t.n * x.d

RowOf(p) == Row(RecordOf(p), baseSha, headSha)

\* rows i < j never have the ratio of j above the ratio of i
Descending(rows, from) ==
    \A i, j \in from..Len(rows) :
        i < j => ~GreaterThan(RecordOf(rows[j].path).change,
                              RecordOf(rows[i].path).change)

\* the rows are the rows of exactly the records of set, each once
RowsOfExactly(rows, from, set) ==
    /\ Len(rows) - (from - 1) = Cardinality(set)
    /\ {rows[i].path : i \in from..Len(rows)} = {r.path : r \in set}
    /\ \A i \in from..Len(rows) : rows[i] = RowOf(rows[i].path)

(***************************************************************************)
(* C1.  In an emitted report criticalRows is: one row for each always-     *)
(* critical path in the declared order, whatever its ratio, followed by    *)
(* one row for every record outside the list whose raw ratio has           *)
(* |ratio| > 0.02 or is the +inf or -1 sentinel, in descending ratio       *)
(* order; no path twice, no other record.                                  *)
(***************************************************************************)
C1_CriticalRowsExact ==
    pc = "emitted" =>
        LET rows == message.criticalResults
            n == Len(CRITICAL_ARTIFACT_PATHS)
            triggered == {r \in Records :
                             /\ r.path \notin CriticalSet
                             /\ \/ MagnitudeAbove(r.change, CRITICAL_THRESHOLD)
                                \/ IsSentinel(r.change)}
        IN /\ Len(rows) >= n
           /\ \A i \in 1..n : rows[i] = RowOf(CRITICAL_ARTIFACT_PATHS[i])
           /\ RowsOfExactly(rows, n + 1, triggered)
           /\ Descending(rows, n + 1)

(***************************************************************************)
(* C2.  In an emitted report significantRows is the rows of exactly the    *)
(* records with |raw ratio| > 0.002 or a sentinel ratio, each once, in     *)
(* descending ratio order, equal ratios in insertion order.                *)
(***************************************************************************)
C2_SignificantRowsExact ==
    pc = "emitted" =>
        LET rows == message.significantResults
            significant == {r \in Records :
                               \/ MagnitudeAbove(r.change, SIGNIFICANCE_THRESHOLD)
                               \/ IsSentinel(r.change)}
        IN /\ RowsOfExactly(rows, 1, significant)
           /\ Descending(rows, 1)
           /\ \A i, j \in 1..Len(rows) :
                 (i < j /\ RecordOf(rows[i].path).change = RecordOf(rows[j].path).change)
                     => IndexOf(rows[i].path) < IndexOf(rows[j].path)

(***************************************************************************)
(* C3.  While an always-critical path is in neither tree nothing is ever   *)
(* emitted: no report, no pointer, no fallback file, no rendered message.  *)
(* A run that gets past both loops then ends in the "Missing expected      *)
(* bundle" error, and the path it names is the first such path of the      *)
(* declared order.                                                         *)
(***************************************************************************)
AbsentBundles ==
    {i \in 1..Len(CRITICAL_ARTIFACT_PATHS) :
        ~InHead(CRITICAL_ARTIFACT_PATHS[i]) /\ ~InBase(CRITICAL_ARTIFACT_PATHS[i])}

C3_MissingBundleIsFatal ==
    AbsentBundles # {} =>
        /\ markdown = <<>>
        /\ fallbackFile = <<>>
        /\ message = NoMessage
        /\ pc # "emitted"
        /\ (pc = "fatal" /\ thrown.name \notin {"ENOENT", "EACCES"}) =>
               /\ thrown.name = "Missing expected bundle"
               /\ \E i \in AbsentBundles :
                     /\ thrown.path = CRITICAL_ARTIFACT_PATHS[i]
                     /\ \A j \in AbsentBundles : i <= j

\* the run died naming the first of two absent bundles
C3_Witness ==
    /\ Cardinality(AbsentBundles) >= 2
    /\ pc = "fatal"
    /\ thrown.name = "Missing expected bundle"

(***************************************************************************)
(* C4.  Once the head loop has visited a head path whose base file exists  *)
(* but cannot be read, the run has failed fatally, and the path has no     *)
(* record with base sizes 0 and ratio +inf.                                *)
(***************************************************************************)
C4_BaseFailureIsFatal ==
    \A p \in Paths :
        (baseTree[p].kind = "unreadable" /\ InHead(p) /\ pc \notin {"prelude", "returned"})
            => /\ pc = "fatal"
               /\ ~\E r \in Records :
                     r.path = p /\ r.baseSize = 0 /\ r.change = Infinity

(***************************************************************************)
(* C5.  A path present on both sides with base raw size 0 has ratio +inf   *)
(* and the label "New file" whatever the head size, and sits in both       *)
(* sections of an emitted report; no record has an undefined (NaN) ratio.  *)
(***************************************************************************)
C5_ZeroBaseIsNewFile ==
    /\ \A r \in Records : r.change.kind # "nan"
    /\ \A r \in Records :
          (baseTree[r.path].kind = "file" /\ baseTree[r.path].size = 0 /\ InHead(r.path))
              => /\ r.change = Infinity
                 /\ Change(r.change) = Label("New file", 0)
                 /\ pc = "emitted" =>
                       /\ \E i \in 1..Len(message.criticalResults) :
                             message.criticalResults[i].path = r.path
                       /\ \E i \in 1..Len(message.significantResults) :
                             message.significantResults[i].path = r.path

(***************************************************************************)
(* C6.  A record has raw ratio -1, or the label "Deleted", exactly when    *)
(* its path is only in the base tree; such a record has ratio -1 on the    *)
(* compressed size too and head sizes 0, and after both loops every path   *)
(* that is only in the base tree has a record.                             *)
(***************************************************************************)
C6_DeletedIffBaseOnly ==
    /\ \A r \in Records :
          /\ (r.change = MinusOne) <=> (InBase(r.path) /\ ~InHead(r.path))
          /\ (Change(r.change) = Label("Deleted", 0))
                 <=> (InBase(r.path) /\ ~InHead(r.path))
          /\ (InBase(r.path) /\ ~InHead(r.path))
                 => /\ r.changeGzip = MinusOne
                    /\ r.headSize = 0
                    /\ r.headSizeGzip = 0
    /\ Reconciled =>
          \A p \in Paths : (InBase(p) /\ ~InHead(p)) => MapHas(resultsMap, p)

(***************************************************************************)
(* C7.  Every row of an emitted report carries, for the raw and for the    *)
(* compressed size, the label "New file" for ratio +inf, "Deleted" for     *)
(* ratio -1, "=" when the magnitude of the ratio is below 0.0001, and      *)
(* otherwise the signed percentage with two decimals.                      *)
(***************************************************************************)
ExpectedLabel(x) ==
    IF x = Infinity THEN Label("New file", 0)
    ELSE IF x = MinusOne THEN Label("Deleted", 0)
    ELSE IF MagnitudeBelow(x, EQUALITY_EPSILON) THEN Label("=", 0)
    ELSE PercentFormat(x)

C7_ChangeLabels ==
    pc = "emitted" =>
        \A row \in Range(message.criticalResults) \cup Range(message.significantResults) :
            /\ row.change = ExpectedLabel(RecordOf(row.path).change)
            /\ row.changeGzip = ExpectedLabel(RecordOf(row.path).changeGzip)

(***************************************************************************)
(* C8.  The emitted message does not depend on the order in which glob     *)
(* lists the paths: it is a message the run that lists both trees in the   *)
(* canonical order can emit.                                               *)
(***************************************************************************)
CanonicalOrder == CRITICAL_ARTIFACT_PATHS \o SubSeq(OtherPathNames, 1, NumOther)

CanonicalMessages ==
    LET m == BaseLoop(HeadLoop(<<>>, SelectSeq(CanonicalOrder, InHead),
                               baseTree, headTree),
                      SelectSeq(CanonicalOrder, InBase), baseTree).map
    IN {RenderedMessage(m, sorted, baseSha, headSha) : sorted \in SortOutcomes(m)}

C8_EnumerationIndependent ==
    pc = "emitted" => message \in CanonicalMessages

(***************************************************************************)
(* C9.  resultsMap never holds two records for one path; after both loops  *)
(* it holds a record for exactly the paths of the two trees; the record    *)
(* of a head path is the one the head loop made (it carries the head       *)
(* sizes); and the record of a path in both trees carries the sizes of     *)
(* both sides and their quotient.                                          *)
(***************************************************************************)
C9_OneRecordPerPath ==
    /\ \A i, j \in 1..Len(resultsMap) :
          resultsMap[i].path = resultsMap[j].path => i = j
    /\ \A r \in Records : InHead(r.path) \/ InBase(r.path)
    /\ Reconciled =>
          /\ {r.path : r \in Records} = Glob(headTree) \cup Glob(baseTree)
          /\ \A r \in Records :
                InHead(r.path) =>
                    /\ r.headSize = headTree[r.path].size
                    /\ r.headSizeGzip = headTree[r.path].gzip
          /\ \A r \in Records :
                (InHead(r.path) /\ InBase(r.path)) =>
                    /\ r.baseSize = baseTree[r.path].size
                    /\ r.change = Divide(r.headSize - r.baseSize, r.baseSize)

(***************************************************************************)
(* C10.  Nothing is emitted before the run emits, and it emits once: a     *)
(* message longer than 65536 characters is written whole to the fallback   *)
(* file and the comment is the pointer alone; any other message is the     *)
(* comment and no file is written.  A run that has rendered its message    *)
(* has emitted it: none dies of the size of its message.                   *)
(***************************************************************************)
C10_EmitOnce ==
    /\ pc # "emitted" => markdown = <<>> /\ fallbackFile = <<>> /\ message = NoMessage
    /\ pc = "emitted" =>
          IF MessageLength(message) > COMMENT_LIMIT
          THEN markdown = <<Pointer>> /\ fallbackFile = <<message>>
          ELSE markdown = <<Report(message)>> /\ fallbackFile = <<>>

\* an oversized message went to the fallback file
C10_Witness ==
    /\ pc = "emitted"
    /\ MessageLength(message) > COMMENT_LIMIT
    /\ fallbackFile # <<>>

====
